---- MODULE Spec2Model ----
(***************************************************************************)
(* A model of mri_aggregator_app.py: the text helpers (normalize_text,     *)
(* extract_patient_name, extract_section_by_heading), the response         *)
(* handling of summarize_section_structured and the per-document loop of   *)
(* MRIApp.run_aggregation.                                                 *)
(*                                                                         *)
(* A Python str is a sequence of characters; a character is a one-letter   *)
(* TLA+ string, or a named string for the few non-ASCII characters the     *)
(* code treats specially.  Offsets are Python's (0-based); Slice(s, a, b)  *)
(* is s[a:b].                                                              *)
(***************************************************************************)
EXTENDS Naturals, Integers, Sequences, FiniteSets, TLC

VARIABLES
    client,           \* self.client: TRUE when the OpenAI client was built
    folder_var,       \* self.folder_var: the input folder
    dir_entries,      \* what os.listdir returns for the input folder
    out_var,          \* self.out_var: the output folder
    pc,               \* where run_aggregation is: "idle", "loop", "finish"
    outcome,          \* how the last run of run_aggregation ended
    pdf_files,        \* run_aggregation's sorted pdf_files
    idx,              \* how many entries of pdf_files the loop has completed
    per_report_rows,  \* run_aggregation's per_report_rows
    output_text,      \* self.output_text: the lines shown, in order
    read_calls,       \* the calls made to the document source in this run
    classify_calls,   \* the calls made to the classification collaborator in this run
    export_calls,     \* how many times the export step was entered in this run
    written,          \* the output files this run wrote
    fn,               \* the helper a helper-level specification calls
    calls,            \* how many calls of it have returned
    arg,              \* the text it is called on
    ret,              \* what the first call returned
    ret2              \* what the second call returned

runVars == <<client, folder_var, dir_entries, out_var, pc, outcome, pdf_files, idx,
             per_report_rows, output_text, read_calls, classify_calls,
             export_calls, written>>
fnVars == <<fn, calls, arg, ret, ret2>>
vars == <<client, folder_var, dir_entries, out_var, pc, outcome, pdf_files, idx,
          per_report_rows, output_text, read_calls, classify_calls,
          export_calls, written, fn, calls, arg, ret, ret2>>

---------------------------------------------------------------------------
(* Characters and the str / re primitives the code uses.                   *)

LF == "\n"
CR == "\r"
TAB == "\t"
NBSP == "<nbsp>"            \* U+00A0
IDOT == "<I-dot>"           \* U+0130, LATIN CAPITAL LETTER I WITH DOT ABOVE
DOTABOVE == "<dot-above>"   \* U+0307, COMBINING DOT ABOVE
ENDASH == "<en-dash>"       \* U+2013
EMDASH == "<em-dash>"       \* U+2014

LowerLetters ==
    <<"a","b","c","d","e","f","g","h","i","j","k","l","m",
      "n","o","p","q","r","s","t","u","v","w","x","y","z">>
UpperLetters ==
    <<"A","B","C","D","E","F","G","H","I","J","K","L","M",
      "N","O","P","Q","R","S","T","U","V","W","X","Y","Z">>
Digits == {"0","1","2","3","4","5","6","7","8","9"}

Range(s) == {s[i] : i \in 1..Len(s)}
IndexOf(s, c) == CHOOSE i \in 1..Len(s) : s[i] = c
Min(S) == CHOOSE x \in S : \A y \in S : x <= y
Max(S) == CHOOSE x \in S : \A y \in S : y <= x

IsUpper(c) == c \in Range(UpperLetters)
IsLower(c) == c \in Range(LowerLetters)
IsLetter(c) == IsUpper(c) \/ IsLower(c)
\* re's \s and str.strip()'s whitespace, among the characters modelled
IsSpace(c) == c \in {" ", LF, CR, TAB, NBSP}
\* re's \d
IsDigit(c) == c \in Digits
\* re's \w: alphanumerics and the underscore (U+0130 is a letter, U+0307 is not)
IsWord(c) == IsLetter(c) \/ IsDigit(c) \/ c = "_" \/ c = IDOT

\* str.lower() of one character: U+0130 lowers to the two characters "i", U+0307
LowerChar(c) ==
    IF IsUpper(c) THEN <<LowerLetters[IndexOf(UpperLetters, c)]>>
    ELSE IF c = IDOT THEN <<"i", DOTABOVE>>
    ELSE <<c>>

\* how many characters of lower(s) come from s[1..i-1]
LowerOffset(s, i) == (i - 1) + Cardinality({j \in 1..(i - 1) : s[j] = IDOT})

\* str.lower()
lower(s) ==
    IF \A i \in 1..Len(s) : s[i] # IDOT
    THEN [k \in 1..Len(s) |-> LowerChar(s[k])[1]]
    ELSE [k \in 1..LowerOffset(s, Len(s) + 1) |->
            LET i == CHOOSE j \in 1..Len(s) :
                        /\ LowerOffset(s, j) < k
                        /\ k <= LowerOffset(s, j + 1)
            IN  LowerChar(s[i])[k - LowerOffset(s, i)]]

\* re.IGNORECASE: a pattern letter p matches c when their case folds agree; "i"
\* also matches U+0130
CaseEq(p, c) ==
    \/ LowerChar(p) = LowerChar(c)
    \/ LowerChar(p) = <<"i">> /\ c = IDOT

\* s[a:b] with Python's clamping of the bounds
Slice(s, a, b) ==
    LET hi == IF b < Len(s) THEN b ELSE Len(s)
    IN  IF a >= hi THEN <<>> ELSE SubSeq(s, a + 1, hi)

\* str.strip()
Strip(s) ==
    LET keep == {i \in 1..Len(s) : ~IsSpace(s[i])}
    IN  IF keep = {} THEN <<>> ELSE SubSeq(s, Min(keep), Max(keep))

\* s.startswith(w) at offset a: the literal w stands at s[a:]
LiteralAt(s, a, w) ==
    /\ a + Len(w) <= Len(s)
    /\ \A k \in 1..Len(w) : s[a + k] = w[k]

\* the same under re.IGNORECASE
LiteralAtNoCase(s, a, w) ==
    /\ a + Len(w) <= Len(s)
    /\ \A k \in 1..Len(w) : CaseEq(w[k], s[a + k])

\* the offset at which a greedy \s* that starts at offset a stops
SkipSpaces(s, a) ==
    IF a >= Len(s) THEN a
    ELSE Min({j \in a..Len(s) : j = Len(s) \/ ~IsSpace(s[j + 1])})

\* the offset at which a greedy \d* that starts at offset a stops
SkipDigits(s, a) ==
    IF a >= Len(s) THEN a
    ELSE Min({j \in a..Len(s) : j = Len(s) \/ ~IsDigit(s[j + 1])})

\* re's \b at offset a of s
WordBoundary(s, a) ==
    LET before == a >= 1 /\ a <= Len(s) /\ IsWord(s[a])
        after == a + 1 <= Len(s) /\ IsWord(s[a + 1])
    IN  before # after

\* an optional str: None, or a str
None == [some |-> FALSE, val |-> <<>>]
Some(v) == [some |-> TRUE, val |-> v]

---------------------------------------------------------------------------
(* normalize_text                                                          *)

\* text.replace("\r\n", "\n"): every CR that an LF follows is dropped
ReplaceCRLF(text) ==
    LET keep == {i \in 1..Len(text) :
                    ~(text[i] = CR /\ i < Len(text) /\ text[i + 1] = LF)}
    IN  IF Cardinality(keep) = Len(text) THEN text
        ELSE [k \in 1..Cardinality(keep) |->
                text[CHOOSE i \in keep : Cardinality({j \in keep : j < i}) = k - 1]]

\* text.replace(a, b) for single characters a and b
ReplaceChar(text, a, b) == [k \in 1..Len(text) |-> IF text[k] = a THEN b ELSE text[k]]

\* a variant that leaves a lone carriage return in place
normalize_text_noCR(text) == ReplaceChar(ReplaceCRLF(text), NBSP, " ")

normalize_text(text) ==
    ReplaceChar(ReplaceChar(ReplaceCRLF(text), CR, LF), NBSP, " ")

---------------------------------------------------------------------------
(* extract_patient_name                                                    *)

MaxNameLen == 80

Unknown == <<"U","n","k","n","o","w","n">>

\* the label each pattern starts with; all three continue [:\-]\s*(.+)
patterns ==
    << <<"p","a","t","i","e","n","t"," ","n","a","m","e">>,
       <<"p","a","t","i","e","n","t">>,
       <<"n","a","m","e">> >>

\* Where group 1 starts when label[:\-]\s*(.+) matches at offset a of norm, or
\* -1 when it does not match there.  \s* is greedy and gives characters back
\* until (.+) finds a character that is not a line feed.
NameMatchAt(norm, a, label) ==
    LET b == a + Len(label) + 1
    IN  IF /\ LiteralAtNoCase(norm, a, label)
           /\ b <= Len(norm)
           /\ norm[b] \in {":", "-"}
        THEN LET q == SkipSpaces(norm, b)
                 starts == {c \in b..q : c < Len(norm) /\ norm[c + 1] # LF}
             IN  IF starts = {} THEN -1 ELSE Max(starts)
        ELSE -1

\* the end of the line that holds offset c: where a greedy .+ stops
LineEnd(norm, c) ==
    Min({e \in (c + 1)..Len(norm) : e = Len(norm) \/ norm[e + 1] = LF})

\* re.search(pat, norm, flags=re.IGNORECASE) and m.group(1): the leftmost match
NameSearch(norm, label) ==
    LET at == {a \in 0..(Len(norm) - 1) : NameMatchAt(norm, a, label) >= 0}
    IN  IF at = {} THEN None
        ELSE LET c == NameMatchAt(norm, Min(at), label)
             IN  Some(Slice(norm, c, LineEnd(norm, c)))

\* re.split(r"\s{2,}|dob", line, flags=re.IGNORECASE)[0]
SplitHead(line) ==
    LET cuts == {p \in 0..(Len(line) - 1) :
                    \/ /\ p + 2 <= Len(line)
                       /\ IsSpace(line[p + 1])
                       /\ IsSpace(line[p + 2])
                    \/ LiteralAtNoCase(line, p, <<"d","o","b">>)}
    IN  IF cuts = {} THEN line ELSE Slice(line, 0, Min(cuts))

\* the candidate a pattern yields: the capture, stripped, cut and stripped again
NameCandidate(norm, label) ==
    LET m == NameSearch(norm, label)
    IN  IF m.some THEN Some(Strip(SplitHead(Strip(m.val)))) ELSE None

NameAccepted(line) == 0 < Len(line) /\ Len(line) <= MaxNameLen

RECURSIVE TryPatterns(_, _)
TryPatterns(norm, k) ==
    IF k > Len(patterns) THEN Unknown
    ELSE LET cand == NameCandidate(norm, patterns[k])
         IN  IF cand.some /\ NameAccepted(cand.val) THEN cand.val
             ELSE TryPatterns(norm, k + 1)

\* a variant in which the first pattern that matches decides alone
extract_patient_name_firstMatch(text) ==
    LET norm == normalize_text(text)
        matching == {k \in 1..Len(patterns) : NameCandidate(norm, patterns[k]).some}
    IN  IF matching = {} THEN Unknown
        ELSE LET cand == NameCandidate(norm, patterns[Min(matching)]).val
             IN  IF NameAccepted(cand) THEN cand ELSE Unknown

extract_patient_name(text) == TryPatterns(normalize_text(text), 1)

---------------------------------------------------------------------------
(* extract_section_by_heading                                              *)

\* the separator class [:\-<en-dash><em-dash>.]
Separators == {":", "-", ENDASH, EMDASH, "."}

\* word s? \b at offset d of low: the offset after it, or -1.  s? is greedy: the
\* "s" is taken when \b holds after it, and given back otherwise.
WordPluralAt(low, d, word) ==
    LET e == d + Len(word)
    IN  IF ~LiteralAt(low, d, word) THEN -1
        ELSE IF e < Len(low) /\ low[e + 1] = "s" /\ WordBoundary(low, e + 1)
        THEN e + 1
        ELSE IF WordBoundary(low, e) THEN e
        ELSE -1

\* \s*[:\-...]? from offset e: the offset at which it ends
SeparatorEnd(low, e) ==
    LET g == SkipSpaces(low, e)
    IN  IF g < Len(low) /\ low[g + 1] \in Separators THEN g + 1 ELSE g

\* ^\s*(?:\d+\s*[\.\)])?\s*{heading}s?\b\s*[:\-...]? tried at line start p:
\* the offset at which the match ends, or -1
HeadingMatchAt(low, p, heading) ==
    LET a == SkipSpaces(low, p)
        b == SkipDigits(low, a)
        c == SkipSpaces(low, b)
        numbered ==
            IF b > a /\ c < Len(low) /\ low[c + 1] \in {".", ")"}
            THEN WordPluralAt(low, SkipSpaces(low, c + 1), heading)
            ELSE -1
        e == IF numbered >= 0 THEN numbered ELSE WordPluralAt(low, a, heading)
    IN  IF e < 0 THEN -1 ELSE SeparatorEnd(low, e)

\* ^ under re.MULTILINE
IsLineStart(low, p) == p = 0 \/ low[p] = LF

\* re.search of the heading pattern: heading_match.end(), or -1 for no match
HeadingSearch(low, heading) ==
    LET at == {p \in 0..Len(low) :
                  IsLineStart(low, p) /\ HeadingMatchAt(low, p, heading) >= 0}
    IN  IF at = {} THEN -1 ELSE HeadingMatchAt(low, Min(at), heading)

\* re.search(rf"\b{kw}s?\b\s*[:\-...]?", tail): m.start(), or -1 for no match
StopSearch(tail, kw) ==
    LET at == {q \in 0..(Len(tail) - 1) :
                  WordBoundary(tail, q) /\ WordPluralAt(tail, q, kw) >= 0}
    IN  IF at = {} THEN -1 ELSE Min(at)

\* the loop over stop_headings, from its k-th entry on, with end_idx so far
RECURSIVE StopLoop(_, _, _, _, _)
StopLoop(low, start_idx, stop_headings, k, end_idx) ==
    IF k > Len(stop_headings) THEN end_idx
    ELSE LET m == StopSearch(Slice(low, start_idx, Len(low)), stop_headings[k])
             candidate == start_idx + m
         IN  StopLoop(low, start_idx, stop_headings, k + 1,
                      IF m >= 0 /\ candidate < end_idx THEN candidate ELSE end_idx)

extract_section_by_heading(text, heading, stop_headings) ==
    IF text = <<>> THEN None
    ELSE LET norm == normalize_text(text)
             low == lower(norm)
             start_idx == HeadingSearch(low, heading)
         IN  IF start_idx < 0 THEN None
             ELSE LET end_idx == StopLoop(low, start_idx, stop_headings, 1, Len(norm))
                      section_text == Strip(Slice(norm, start_idx, end_idx))
                  IN  IF section_text = <<>> THEN None ELSE Some(section_text)

W_findings == <<"f","i","n","d","i","n","g","s">>
W_impression == <<"i","m","p","r","e","s","s","i","o","n">>
W_conclusion == <<"c","o","n","c","l","u","s","i","o","n">>
W_discussion == <<"d","i","s","c","u","s","s","i","o","n">>
W_report == <<"r","e","p","o","r","t">>

FindingsStops == <<W_impression, W_conclusion, W_discussion, W_report>>
ImpressionStops == <<W_conclusion, W_discussion, W_report, W_findings>>

extract_findings_section(text) ==
    extract_section_by_heading(text, W_findings, FindingsStops)

extract_impression_section(text) ==
    extract_section_by_heading(text, W_impression, ImpressionStops)

---------------------------------------------------------------------------
(* The inputs of the helper-level specifications.                          *)

MaxNormLen == 4
MaxNameTokens == 4
MaxSectTokens == 4

SeqsUpTo(S, n) == UNION {[1..k -> S] : k \in 0..n}

RECURSIVE Join(_)
Join(toks) == IF toks = <<>> THEN <<>> ELSE Head(toks) \o Join(Tail(toks))

NormChars == {CR, LF, NBSP, " ", "a"}
NormInputs == SeqsUpTo(NormChars, MaxNormLen)

LongValue == [i \in 1..(MaxNameLen + 1) |-> "x"]
NameTokens ==
    { <<"P","a","t","i","e","n","t"," ","N","a","m","e",":">>,
      <<"p","a","t","i","e","n","t","-">>,
      <<"N","A","M","E",":">>,
      <<"D","O","B">>,
      <<" ">>, <<LF>>, <<"x">>, LongValue }
NameInputs == {Join(toks) : toks \in SeqsUpTo(NameTokens, MaxNameTokens)}

SectTokens ==
    { <<"f","i","n","d","i","n","g","s">>,
      <<"I","m","p","r","e","s","s","i","o","n",":">>,
      <<"R","E","P","O","R","T">>,
      <<"1", ".">>, <<"s">>, <<":">>, <<" ">>, <<LF>>, <<"x">>, <<IDOT>> }
SectTexts == {Join(toks) : toks \in SeqsUpTo(SectTokens, MaxSectTokens)}
\* the two call sites of extract_section_by_heading
CallSites ==
    { [heading |-> W_findings, stop_headings |-> FindingsStops],
      [heading |-> W_impression, stop_headings |-> ImpressionStops] }
SectInputs ==
    {[text |-> t, heading |-> c.heading, stop_headings |-> c.stop_headings] :
        t \in SectTexts, c \in CallSites}

Reverse(s) == [k \in 1..Len(s) |-> s[Len(s) + 1 - k]]

\* the application is not running in a helper-level specification
NoRun ==
    /\ client = FALSE
    /\ folder_var = ""
    /\ dir_entries = <<>>
    /\ out_var = ""
    /\ pc = "idle"
    /\ outcome = "none"
    /\ pdf_files = <<>>
    /\ idx = 0
    /\ per_report_rows = <<>>
    /\ output_text = <<>>
    /\ read_calls = <<>>
    /\ classify_calls = <<>>
    /\ export_calls = 0
    /\ written = {}

---------------------------------------------------------------------------
(* normalize_text, called on a text and then on its own result.            *)

InitNormalize ==
    /\ NoRun
    /\ fn = "normalize_text"
    /\ calls = 0
    /\ arg \in NormInputs
    /\ ret = <<>>
    /\ ret2 = <<>>

CallNormalize ==
    /\ fn = "normalize_text"
    /\ calls = 0
    /\ ret' = normalize_text(arg)
    /\ calls' = 1
    /\ UNCHANGED <<fn, arg, ret2>>
    /\ UNCHANGED runVars

CallNormalizeAgain ==
    /\ fn = "normalize_text"
    /\ calls = 1
    /\ ret2' = normalize_text(ret)
    /\ calls' = 2
    /\ UNCHANGED <<fn, arg, ret>>
    /\ UNCHANGED runVars

NextNormalize == CallNormalize \/ CallNormalizeAgain

SpecNormalize == InitNormalize /\ [][NextNormalize]_vars

\* C8: normalize_text is idempotent for every input text, normalize(normalize(t))
\* = normalize(t), and its output holds no carriage return and no non-breaking
\* space.
C8_NormalizeIdempotent ==
    fn = "normalize_text" =>
        /\ calls >= 1 => \A i \in 1..Len(ret) : ret[i] # CR /\ ret[i] # NBSP
        /\ calls = 2 => ret2 = ret

\* normalize_text was applied twice to a text with a CR LF pair, a lone CR and a
\* non-breaking space
C8_Witness ==
    /\ fn = "normalize_text"
    /\ calls = 2
    /\ \E i \in 1..(Len(arg) - 1) : arg[i] = CR /\ arg[i + 1] = LF
    /\ \E i \in 1..Len(arg) : arg[i] = CR /\ (i = Len(arg) \/ arg[i + 1] # LF)
    /\ \E i \in 1..Len(arg) : arg[i] = NBSP
    /\ ret # arg

---------------------------------------------------------------------------
(* extract_patient_name, called on a text.                                 *)

InitName ==
    /\ NoRun
    /\ fn = "extract_patient_name"
    /\ calls = 0
    /\ arg \in NameInputs
    /\ ret = <<>>
    /\ ret2 = <<>>

CallExtractName ==
    /\ fn = "extract_patient_name"
    /\ calls = 0
    /\ ret' = extract_patient_name(arg)
    /\ calls' = 1
    /\ UNCHANGED <<fn, arg, ret2>>
    /\ UNCHANGED runVars

NextName == CallExtractName

SpecName == InitName /\ [][NextName]_vars

\* the patterns that match somewhere in the normalized text
MatchingPatterns(text) ==
    {k \in 1..Len(patterns) : NameCandidate(normalize_text(text), patterns[k]).some}

\* the patterns whose candidate passes the length rule
AcceptedPatterns(text) ==
    {k \in MatchingPatterns(text) :
        NameAccepted(NameCandidate(normalize_text(text), patterns[k]).val)}

\* C9 as stated: the first pattern that produces any match decides; its candidate
\* is returned when its length is > 0 and <= 80, and "Unknown" is returned
\* otherwise, without trying any later pattern.
C9_FirstMatchDecides ==
    fn = "extract_patient_name" /\ calls = 1 =>
        IF MatchingPatterns(arg) = {} THEN ret = Unknown
        ELSE LET k == Min(MatchingPatterns(arg))
             IN  IF k \in AcceptedPatterns(arg)
                 THEN ret = NameCandidate(normalize_text(arg), patterns[k]).val
                 ELSE ret = Unknown

\* C9 as amended: the patterns are evaluated in the order patient name, patient,
\* name; the result is the candidate of the first pattern whose candidate has a
\* length > 0 and <= 80, a pattern whose candidate is rejected does not end the
\* search, and "Unknown" is returned only when no pattern has an accepted
\* candidate.
C9_FirstAcceptedWins ==
    fn = "extract_patient_name" /\ calls = 1 =>
        IF AcceptedPatterns(arg) = {} THEN ret = Unknown
        ELSE ret = NameCandidate(normalize_text(arg),
                                 patterns[Min(AcceptedPatterns(arg))]).val

\* a pattern matched and was rejected as too long, and a later pattern gave the
\* name that was returned
C9_Witness ==
    /\ fn = "extract_patient_name"
    /\ calls = 1
    /\ \E k \in MatchingPatterns(arg) \ AcceptedPatterns(arg) :
          /\ Len(NameCandidate(normalize_text(arg), patterns[k]).val) > MaxNameLen
          /\ \E j \in AcceptedPatterns(arg) :
                /\ j > k
                /\ ret = NameCandidate(normalize_text(arg), patterns[j]).val
    /\ ret # Unknown

---------------------------------------------------------------------------
(* extract_section_by_heading, called at one of its call sites and then     *)
(* with the same arguments and the stop headings in the reverse order.     *)

InitSection ==
    /\ NoRun
    /\ fn = "extract_section_by_heading"
    /\ calls = 0
    /\ arg \in SectInputs
    /\ ret = None
    /\ ret2 = None

CallExtractSection ==
    /\ fn = "extract_section_by_heading"
    /\ calls = 0
    /\ ret' = extract_section_by_heading(arg.text, arg.heading, arg.stop_headings)
    /\ calls' = 1
    /\ UNCHANGED <<fn, arg, ret2>>
    /\ UNCHANGED runVars

CallExtractSectionReordered ==
    /\ fn = "extract_section_by_heading"
    /\ calls = 1
    /\ ret2' = extract_section_by_heading(arg.text, arg.heading,
                                          Reverse(arg.stop_headings))
    /\ calls' = 2
    /\ UNCHANGED <<fn, arg, ret>>
    /\ UNCHANGED runVars

NextSection == CallExtractSection \/ CallExtractSectionReordered

SpecSection == InitSection /\ [][NextSection]_vars

\* the text lower-cased character by character, every character keeping its
\* place: what case-insensitive matching sees at the offsets of the text itself
CaseFold(norm) ==
    [k \in 1..Len(norm) |-> IF norm[k] = IDOT THEN IDOT ELSE LowerChar(norm[k])[1]]

\* the start offsets, in the normalized text, of the first occurrence of each stop
\* heading after offset start
StopOffsets(norm, start, stops) ==
    {start + StopSearch(Slice(CaseFold(norm), start, Len(norm)), stops[k]) :
        k \in {j \in 1..Len(stops) :
                  StopSearch(Slice(CaseFold(norm), start, Len(norm)), stops[j]) >= 0}}

\* whether a stop heading occurs in a text
HasStopHeading(body, stops) ==
    \E k \in 1..Len(stops) : StopSearch(CaseFold(body), stops[k]) >= 0

\* C10: when the target heading is found at the start of a line, the returned
\* body is the trimmed text that runs from immediately after the matched heading
\* token to the minimum start offset, after that point, among the occurrences of
\* all stop headings (or to the end of the text when none occurs); the result
\* does not depend on the order of the stop-heading list and contains no
\* stop-heading occurrence.
C10_BodyRunsToEarliestStop ==
    fn = "extract_section_by_heading" /\ calls >= 1 =>
        LET norm == normalize_text(arg.text)
            start == HeadingSearch(CaseFold(norm), arg.heading)
            offsets == StopOffsets(norm, start, arg.stop_headings)
            end == IF offsets = {} THEN Len(norm) ELSE Min(offsets)
            body == Strip(Slice(norm, start, end))
        IN  start >= 0 =>
                /\ ret = IF body = <<>> THEN None ELSE Some(body)
                /\ ~HasStopHeading(ret.val, arg.stop_headings)
                /\ calls = 2 => ret2 = ret

\* the same, for the texts whose lower-casing keeps every character in place
C10_HoldsWhenLowerKeepsOffsets ==
    (fn = "extract_section_by_heading" /\ \A i \in 1..Len(arg.text) : arg.text[i] # IDOT)
        => C10_BodyRunsToEarliestStop

---------------------------------------------------------------------------
(* summarize_section_structured: the response of the classification        *)
(* collaborator, its code fences, json.loads and the fallback.             *)

\* What json.loads returns: a dict (its items in d), or a value of another type.
\* The value of a key is a str, an int or null.
JStr(x) == [t |-> "str", s |-> x, n |-> 0]
JInt(k) == [t |-> "int", s |-> <<>>, n |-> k]
JNull == [t |-> "null", s |-> <<>>, n |-> 0]
JDict(d) == [t |-> "dict", d |-> d]
JList == [t |-> "list", d |-> <<>>]

\* dict.get(key, default)
Get(d, key, default) == IF key \in DOMAIN d THEN d[key] ELSE default

L_none_normal == <<"n","o","n","e","/","n","o","r","m","a","l">>
L_mild == <<"m","i","l","d">>
L_moderate == <<"m","o","d","e","r","a","t","e">>
L_severe == <<"s","e","v","e","r","e">>
L_uncertain == <<"u","n","c","e","r","t","a","i","n">>
L_catastrophic == <<"c","a","t","a","s","t","r","o","p","h","i","c">>

\* The JSON documents a response may hold.  A whole document stands in the
\* response as one character (it starts with "{" or "[", so it is no letter, no
\* whitespace and no fence character); json.loads of it gives the value listed here.
JsonDocs ==
    "<json:well-formed>" :>
        JDict("summary" :> JStr(<<" ","N","o","r","m","a","l"," ","s","t","u","d","y","."," ">>)
              @@ "severity_label" :> JStr(L_none_normal)
              @@ "severity_score" :> JInt(0))
    @@ "<json:out-of-domain>" :>
        JDict("summary" :> JStr(<<"B","a","d",".">>)
              @@ "severity_label" :> JStr(L_catastrophic)
              @@ "severity_score" :> JInt(99))
    @@ "<json:empty-object>" :> JDict(<<>>)
    @@ "<json:array>" :> JList
    @@ "<json:null-summary>" :>
        JDict("summary" :> JNull
              @@ "severity_label" :> JStr(L_mild)
              @@ "severity_score" :> JInt(2))
    @@ "<json:extra-key>" :>
        JDict("summary" :> JStr(<<"M","i","l","d",".">>)
              @@ "severity_label" :> JStr(L_mild)
              @@ "severity_score" :> JInt(2)
              @@ "raw_llm_output" :> JStr(<<"x">>))

BACKTICK == "<backtick>"    \* U+0060
Fence == <<BACKTICK, BACKTICK, BACKTICK>>

\* the texts resp.output_text may be
Responses ==
    { <<"<json:well-formed>">>,
      Fence \o <<"j","s","o","n",LF>> \o <<"<json:well-formed>">> \o <<LF>> \o Fence,
      <<" ","n","o","t"," ","j","s","o","n"," ">>,
      Fence \o <<"<json:out-of-domain>">>,
      <<"<json:empty-object>">>,
      <<"<json:array>">>,
      <<"<json:null-summary>">>,
      <<"<json:extra-key>">> }

\* the offset at which a greedy [a-zA-Z]* that starts at offset a stops
SkipLetters(s, a) ==
    IF a >= Len(s) THEN a
    ELSE Min({j \in a..Len(s) : j = Len(s) \/ ~IsLetter(s[j + 1])})

\* s.endswith(w)
EndsWith(s, w) == Len(s) >= Len(w) /\ LiteralAt(s, Len(s) - Len(w), w)

\* lines 214-217: the opening fence with its language tag and a closing fence
\* are removed from the stripped response
StripFences(raw) ==
    IF LiteralAt(raw, 0, Fence)
    THEN LET inner == Strip(Slice(raw, SkipLetters(raw, Len(Fence)), Len(raw)))
         IN  IF EndsWith(inner, Fence)
             THEN Strip(Slice(inner, 0, Len(inner) - Len(Fence)))
             ELSE inner
    ELSE raw

\* json.loads(raw): the value, or ok = FALSE for a JSONDecodeError.  JSON allows
\* whitespace around the document.
json_loads(raw) ==
    LET keep == {i \in 1..Len(raw) : raw[i] \notin {" ", LF, CR, TAB}}
    IN  IF keep # {} /\ Min(keep) = Max(keep) /\ raw[Min(keep)] \in DOMAIN JsonDocs
        THEN [ok |-> TRUE, data |-> JsonDocs[raw[Min(keep)]]]
        ELSE [ok |-> FALSE, data |-> JNull]

MaxSummaryLen == 300
FallbackScore == 3
Ellipsis == <<".", ".", ".">>

\* section_text[:300] + ("..." if len(section_text) > 300 else "")
FallbackSummary(section_text) ==
    Slice(section_text, 0, MaxSummaryLen)
        \o (IF Len(section_text) > MaxSummaryLen THEN Ellipsis ELSE <<>>)

\* what summarize_section_structured returns when the call returned output_text
summarize_section_structured(section_text, resp_output_text) ==
    LET raw == StripFences(Strip(resp_output_text))
        parsed == json_loads(raw)
    IN  IF parsed.ok THEN parsed.data
        ELSE JDict("summary" :> JStr(FallbackSummary(section_text))
                   @@ "severity_label" :> JStr(L_uncertain)
                   @@ "severity_score" :> JInt(FallbackScore)
                   @@ "raw_llm_output" :> JStr(raw))

---------------------------------------------------------------------------
(* The documents of the input folder.                                      *)

MaxFiles == 2

F_B == <<"B",".","P","D","F">>
F_a == <<"a",".","p","d","f">>
F_c == <<"c",".","P","d","f">>
F_d == <<"d",".","p","d","f">>
F_e == <<"e",".","p","d","f">>
F_n == <<"n",".","t","x","t">>

\* the entries os.listdir may return
FilePool == {F_B, F_a, F_c, F_d, F_e, F_n}

\* the text pdfplumber extracts from each file
FileText ==
    F_a :> <<"P","a","t","i","e","n","t"," ","N","a","m","e",":"," ","J","o",LF,"F","i","n","d","i","n","g","s",":"," ","o","k",".",LF,"I","m","p","r","e","s","s","i","o","n",":"," ","f","i","n","e",".">>
    @@ F_B :> <<"N","a","m","e",":"," ","A","l",CR,LF,"I","M","P","R","E","S","S","I","O","N",":"," ","m","i","l","d">>
    @@ F_c :> <<"n","o",NBSP,"h","e","a","d",CR>>
    @@ F_d :> [i \in 1..(MaxSummaryLen + 1) |-> "x"]
    @@ F_e :> <<"F","i","n","d","i","n","g","s",":">> \o [i \in 1..MaxSummaryLen |-> "x"]
    @@ F_n :> <<>>

\* os.listdir(input_folder): the entries of the folder, in any order
Listings ==
    {l \in SeqsUpTo(FilePool, MaxFiles) :
        \A i, j \in 1..Len(l) : i # j => l[i] # l[j]}

\* os.path.join(input_folder, f) and os.path.basename(pdf_path)
PathJoin(dir, f) == [dir |-> dir, name |-> f]
Basename(path) == path.name

\* the characters of the file names, in code point order
Ascii ==
    <<" ", "-", ".", "0","1","2","3","4","5","6","7","8","9", ":">>
    \o UpperLetters \o <<"_">> \o LowerLetters
CodePoint(c) == IndexOf(Ascii, c)

\* str < str: at the first difference the smaller code point, or a proper prefix
StrLess(x, y) ==
    \E k \in 1..(Len(y)) :
        /\ \A i \in 1..(k - 1) : i <= Len(x) /\ x[i] = y[i]
        /\ k - 1 <= Len(x)
        /\ \/ k = Len(x) + 1
           \/ k <= Len(x) /\ CodePoint(x[k]) < CodePoint(y[k])

\* the order of two joined paths: the folder is the same, the names decide
PathLess(p, q) == p.dir = q.dir /\ StrLess(p.name, q.name)

IsPdfName(f) == EndsWith(lower(f), <<".", "p", "d", "f">>)

\* the list comprehension of lines 314-318
PdfPaths(dir, listing) ==
    LET keep == {i \in 1..Len(listing) : IsPdfName(listing[i])}
    IN  [k \in 1..Cardinality(keep) |->
            PathJoin(dir, listing[CHOOSE i \in keep :
                                      Cardinality({j \in keep : j < i}) = k - 1])]

\* a variant that keeps the order of the listing (no sort)
SortPaths_unsorted(paths) == paths

\* pdf_files.sort()
SortPaths(paths) == SortSeq(paths, PathLess)

---------------------------------------------------------------------------
(* MRIApp.run_aggregation                                                  *)

DEFAULT_PDF_FOLDER == "~/Documents/MRI_Reports"
DEFAULT_OUTPUT_FOLDER == "~/Documents/MRI_Outputs"

DefaultScore == 3

\* a line inserted into output_text
Line(kind, file) == [kind |-> kind, file |-> file]

\* the truth value of an optional str: neither None nor empty
Truthy(o) == o.some /\ o.val # <<>>

\* lines 351-371: findings, else impression, else the full text
SelectSection(full_text, findings_text, impression_text) ==
    IF Truthy(findings_text)
    THEN [section_text |-> findings_text.val, source_label |-> "findings"]
    ELSE IF Truthy(impression_text)
    THEN [section_text |-> impression_text.val, source_label |-> "impression"]
    ELSE [section_text |-> full_text, source_label |-> "full_report"]

UsingLine(source_label) ==
    CASE source_label = "findings" -> "using_findings"
      [] source_label = "impression" -> "using_impression"
      [] OTHER -> "using_full_report"

\* value or default, for a str
OrDefault(value, default) == IF value = <<>> THEN default ELSE value

\* lines 344-371 for one document text
Prepare(full_text) ==
    [patient_name |-> OrDefault(extract_patient_name(full_text), Unknown),
     selected |-> SelectSection(full_text,
                                extract_findings_section(full_text),
                                extract_impression_section(full_text))]

\* lines 375-376 for a prepared document: what summarize_section_structured
\* returns for each text the call may return
Summarize(doc) ==
    [patient_name |-> doc.patient_name,
     selected |-> doc.selected,
     structured |-> [r \in Responses |->
                        summarize_section_structured(doc.selected.section_text, r)]]

\* the pure part of an iteration for each file of the folder, computed once
Documents == [f \in FilePool |-> Summarize(Prepare(FileText[f]))]

\* lines 384-386 raise AttributeError unless structured is a dict whose summary,
\* when present, is a str
HasRowFields(structured) ==
    /\ structured.t = "dict"
    /\ Get(structured.d, "summary", JStr(<<>>)).t = "str"

\* lines 384-396: the row of a document
Row(basename, patient_name, structured) ==
    [file |-> basename,
     patient_name |-> patient_name,
     summary |-> Strip(Get(structured.d, "summary", JStr(<<>>)).s),
     severity_label |-> Get(structured.d, "severity_label", JStr(L_uncertain)),
     severity_score |-> Get(structured.d, "severity_score", JInt(DefaultScore))]

\* run_aggregation returns: the handler is over, with how it ended
Return(how) ==
    /\ pc' = "idle"
    /\ outcome' = how

\* the early returns of lines 299-322 leave the window as it is
EarlyReturn(how) ==
    /\ Return(how)
    /\ pdf_files' = <<>>
    /\ idx' = 0
    /\ per_report_rows' = <<>>
    /\ read_calls' = <<>>
    /\ classify_calls' = <<>>
    /\ export_calls' = 0
    /\ written' = {}
    /\ UNCHANGED output_text

\* lines 298-328: the button is pressed; the checks, the listing and the sort
StartRun ==
    /\ pc = "idle"
    /\ \/ \* lines 299-301: no client
          ~client /\ EarlyReturn("error_no_client")
       \/ \* lines 306-308: os.path.isdir(input_folder) is false
          client /\ EarlyReturn("error_input_folder")
       \/ \* lines 309-311: os.path.isdir(output_folder) is false
          client /\ EarlyReturn("error_output_folder")
       \/ \* lines 313-322: the listing has no PDF
          /\ client
          /\ SortPaths(PdfPaths(folder_var, dir_entries)) = <<>>
          /\ EarlyReturn("info_no_pdfs")
       \/ \* lines 324-328: the output is cleared and the loop begins
          /\ client
          /\ SortPaths(PdfPaths(folder_var, dir_entries)) # <<>>
          /\ pdf_files' = SortPaths(PdfPaths(folder_var, dir_entries))
          /\ idx' = 0
          /\ per_report_rows' = <<>>
          /\ output_text' = <<Line("found", <<>>)>>
          /\ read_calls' = <<>>
          /\ classify_calls' = <<>>
          /\ export_calls' = 0
          /\ written' = {}
          /\ pc' = "loop"
          /\ outcome' = "none"
    /\ UNCHANGED <<client, folder_var, dir_entries, out_var>>
    /\ UNCHANGED fnVars

\* line 331: the line that announces the document
Processing(pdf_path) == Append(output_text, Line("processing", Basename(pdf_path)))

\* lines 360-371: the line that names the text being summarized
Using(pdf_path, selected) ==
    Append(Processing(pdf_path), Line(UsingLine(selected.source_label),
                                      Basename(pdf_path)))

\* the call of summarize_section_structured, as the collaborator saw it
ClassifyCall(pdf_path, selected, returned, resp_output_text, structured) ==
    [file |-> pdf_path,
     section_text |-> selected.section_text,
     source_label |-> selected.source_label,
     returned |-> returned,
     output_text |-> resp_output_text,
     structured |-> structured]

\* lines 335-342: load_pdf_text raises; the document is skipped
ReadError(pdf_path) ==
    /\ read_calls' = Append(read_calls, [file |-> pdf_path, ok |-> FALSE])
    /\ output_text' = Append(Processing(pdf_path),
                             Line("read_error", Basename(pdf_path)))
    /\ idx' = idx + 1
    /\ UNCHANGED <<per_report_rows, classify_calls, pc, outcome>>

\* lines 375-382: the classification call raises; the document is skipped
ClassifyError(pdf_path, selected) ==
    /\ read_calls' = Append(read_calls, [file |-> pdf_path, ok |-> TRUE])
    /\ classify_calls' =
          Append(classify_calls, ClassifyCall(pdf_path, selected, FALSE, <<>>, JNull))
    /\ output_text' = Append(Using(pdf_path, selected),
                             Line("llm_error", Basename(pdf_path)))
    /\ idx' = idx + 1
    /\ UNCHANGED <<per_report_rows, pc, outcome>>

\* lines 375-402: the call returns resp_output_text and structured is what
\* summarize_section_structured makes of it; the row is built and appended, or
\* lines 384-386 raise and the exception leaves run_aggregation
Classified(pdf_path, patient_name, selected, resp_output_text, structured) ==
    /\ read_calls' = Append(read_calls, [file |-> pdf_path, ok |-> TRUE])
    /\ classify_calls' =
          Append(classify_calls,
                 ClassifyCall(pdf_path, selected, TRUE, resp_output_text, structured))
    /\ IF HasRowFields(structured)
       THEN /\ per_report_rows' =
                  Append(per_report_rows,
                         Row(Basename(pdf_path), patient_name, structured))
            /\ output_text' = Append(Using(pdf_path, selected),
                                     Line("done", Basename(pdf_path)))
            /\ idx' = idx + 1
            /\ UNCHANGED <<pc, outcome>>
       ELSE /\ output_text' = Using(pdf_path, selected)
            /\ Return("crashed")
            /\ UNCHANGED <<idx, per_report_rows>>

\* lines 330-402 for the document pdf_path, doc being what lines 344-376 compute
Iteration(pdf_path, doc) ==
    \/ ReadError(pdf_path)
    \/ ClassifyError(pdf_path, doc.selected)
    \/ \E resp_output_text \in Responses :
          Classified(pdf_path, doc.patient_name, doc.selected, resp_output_text,
                     doc.structured[resp_output_text])

\* lines 330-402: one iteration of the loop over pdf_files
ProcessDocument ==
    /\ pc = "loop"
    /\ idx < Len(pdf_files)
    /\ Iteration(pdf_files[idx + 1], Documents[Basename(pdf_files[idx + 1])])
    /\ UNCHANGED <<client, folder_var, dir_entries, out_var, pdf_files,
                   export_calls, written>>
    /\ UNCHANGED fnVars

\* lines 414-429: the table shown for the rows
TableLines(rows) ==
    <<Line("table_header", <<>>)>> \o [i \in 1..Len(rows) |-> Line("row", rows[i].file)]

\* lines 404-468: after the loop; no rows, or the table and the export
FinishRun ==
    /\ pc = "loop"
    /\ idx = Len(pdf_files)
    /\ \/ /\ per_report_rows = <<>>
          /\ output_text' = Append(output_text, Line("no_valid_summaries", <<>>))
          /\ Return("info_no_records")
          /\ UNCHANGED <<export_calls, written>>
       \/ /\ per_report_rows # <<>>
          /\ export_calls' = export_calls + 1
          /\ \/ /\ written' = {"csv", "json"}
                /\ output_text' = Append(output_text \o TableLines(per_report_rows),
                                         Line("saved", <<>>))
                /\ Return("saved")
             \/ /\ written' \in {{}, {"csv"}}
                /\ output_text' = Append(output_text \o TableLines(per_report_rows),
                                         Line("save_error", <<>>))
                /\ Return("error_saving")
    /\ UNCHANGED <<client, folder_var, dir_entries, out_var, pdf_files, idx,
                   per_report_rows, read_calls, classify_calls>>
    /\ UNCHANGED fnVars

\* the state after MRIApp.__init__
Init ==
    /\ client \in BOOLEAN
    /\ folder_var = DEFAULT_PDF_FOLDER
    /\ dir_entries \in Listings
    /\ out_var = DEFAULT_OUTPUT_FOLDER
    /\ pc = "idle"
    /\ outcome = "none"
    /\ pdf_files = <<>>
    /\ idx = 0
    /\ per_report_rows = <<>>
    /\ output_text = <<>>
    /\ read_calls = <<>>
    /\ classify_calls = <<>>
    /\ export_calls = 0
    /\ written = {}
    /\ fn = "none"
    /\ calls = 0
    /\ arg = <<>>
    /\ ret = <<>>
    /\ ret2 = <<>>

Next == StartRun \/ ProcessDocument \/ FinishRun

Spec == Init /\ [][Next]_vars

---------------------------------------------------------------------------
(* Claims about a run of run_aggregation, checked under Spec.              *)

\* the rows of this run that carry the name of the document at path
RowsOf(path) ==
    {r \in 1..Len(per_report_rows) : per_report_rows[r].file = Basename(path)}

\* the documents of this run whose read, or whose classification call, raised
FailedReads == {k \in 1..Len(read_calls) : ~read_calls[k].ok}
FailedCalls == {k \in 1..Len(classify_calls) : ~classify_calls[k].returned}

\* the classification calls of this run that returned a text
ReturnedCalls == {k \in 1..Len(classify_calls) : classify_calls[k].returned}

\* the run has ended: run_aggregation was entered and has returned or raised
RunEnded == pc = "idle" /\ outcome # "none"

\* C1: whatever text the classification call returns for a document, the
\* normalized response is a result object, the run appends exactly one
\* record for that document, and the run is not aborted.
C1_ResponseNeverAbortsNorDrops ==
    /\ outcome # "crashed"
    /\ \A k \in ReturnedCalls :
          /\ classify_calls[k].structured.t = "dict"
          /\ Cardinality(RowsOf(classify_calls[k].file)) = 1

\* C2: a document whose read or whose classification call raised has no
\* record, and the run still handles every later document of the sorted list:
\* once the run has ended, every document of the list has been handled.
C2_FailedDocumentSkippedRunContinues ==
    /\ \A k \in FailedReads : RowsOf(read_calls[k].file) = {}
    /\ \A k \in FailedCalls : RowsOf(classify_calls[k].file) = {}
    /\ (FailedReads # {} \/ FailedCalls # {}) /\ RunEnded
          => idx = Len(pdf_files)

\* C3: the export is attempted if and only if the run produced at least one
\* record, then exactly once and after every document has been handled; a
\* run with no PDF or no record ends with an informational outcome.
C3_ExportIffRecords ==
    /\ export_calls <= 1
    /\ export_calls = 1 => per_report_rows # <<>> /\ idx = Len(pdf_files)
    /\ RunEnded /\ per_report_rows # <<>> => export_calls = 1
    /\ RunEnded /\ per_report_rows = <<>> /\ client
          => outcome \in {"info_no_pdfs", "info_no_records",
                          "error_input_folder", "error_output_folder"}

\* the documents of pdf_files handled so far for which the read and the
\* classification call both succeeded
Succeeded ==
    {k \in 1..idx : \E c \in ReturnedCalls : classify_calls[c].file = pdf_files[k]}

\* the k-th smallest element of a set of numbers
Nth(S, k) == CHOOSE n \in S : Cardinality({m \in S : m < n}) = k - 1

\* C4 (state part): the rows are exactly the documents handled so far whose
\* read and classification succeeded, one row each, in the order of the
\* list, and the list is in strictly increasing lexicographic order of names.
RowsFollowSortedDocuments ==
    /\ \A i, j \in 1..Len(pdf_files) :
          i < j => StrLess(Basename(pdf_files[i]), Basename(pdf_files[j]))
    /\ Len(per_report_rows) = Cardinality(Succeeded)
    /\ \A r \in 1..Len(per_report_rows) :
          per_report_rows[r].file = Basename(pdf_files[Nth(Succeeded, r)])
    /\ \A r1, r2 \in 1..Len(per_report_rows) :
          r1 < r2 => StrLess(per_report_rows[r1].file, per_report_rows[r2].file)

\* C4 (step part): while a run lasts, a step keeps the rows or appends one row
RowsAppendOnly ==
    pc = "loop" =>
        \/ per_report_rows' = per_report_rows
        \/ /\ Len(per_report_rows') = Len(per_report_rows) + 1
           /\ SubSeq(per_report_rows', 1, Len(per_report_rows)) = per_report_rows

\* C4: at every point of a run the rows are append-only and ordered by file
\* name: at most one per document, exactly one for each handled document
\* whose read and classification succeeded, in the order of the sorted list.
C4_RowsAppendOnlyInSortedOrder ==
    [](RowsFollowSortedDocuments) /\ [][RowsAppendOnly]_vars

\* C4 witness: a run over a folder listed as a.pdf, B.PDF ended with the row
\* of B.PDF before the row of a.pdf
C4_Witness ==
    /\ dir_entries = <<F_a, F_B>>
    /\ outcome = "saved"
    /\ Len(per_report_rows) = 2
    /\ per_report_rows[1].file = F_B
    /\ per_report_rows[2].file = F_a

SeverityLabels == {L_none_normal, L_mild, L_moderate, L_severe, L_uncertain}

\* C5: every row has a severity_label of the enumeration and an integer
\* severity_score in 0..5, whatever the classification call returned.
C5_RowSeverityInDomain ==
    \A r \in 1..Len(per_report_rows) :
        /\ per_report_rows[r].severity_label.t = "str"
        /\ per_report_rows[r].severity_label.s \in SeverityLabels
        /\ per_report_rows[r].severity_score.t = "int"
        /\ per_report_rows[r].severity_score.n \in 0..5

\* C6: each document is handed to the classifier once, with the findings
\* body when a findings section is present, else the impression body when an
\* impression section is present, else the full normalized document text.
C6_SelectedByPriority ==
    /\ \A k1, k2 \in 1..Len(classify_calls) :
          classify_calls[k1].file = classify_calls[k2].file => k1 = k2
    /\ \A k \in 1..Len(classify_calls) :
          LET call == classify_calls[k]
              full_text == FileText[Basename(call.file)]
              findings == extract_findings_section(full_text)
              impression == extract_impression_section(full_text)
          IN  IF findings.some
              THEN call.source_label = "findings"
                   /\ call.section_text = findings.val
              ELSE IF impression.some
              THEN call.source_label = "impression"
                   /\ call.section_text = impression.val
              ELSE call.source_label = "full_report"
                   /\ call.section_text = normalize_text(full_text)

\* C7: when the returned text does not parse, the result is the fallback:
\* the first 300 characters of the text sent, then "..." exactly when that
\* text is longer, "uncertain", 3, and the fence-stripped text; when it does
\* parse, the result has no raw-content field.
C7_FallbackExactRawOnlyOnFallback ==
    \A k \in ReturnedCalls :
        LET call == classify_calls[k]
            raw == StripFences(Strip(call.output_text))
            sent == call.section_text
        IN  IF json_loads(raw).ok
            THEN "raw_llm_output" \notin DOMAIN call.structured.d
            ELSE call.structured =
                    JDict("summary" :>
                              JStr(IF Len(sent) > MaxSummaryLen
                                   THEN SubSeq(sent, 1, MaxSummaryLen) \o Ellipsis
                                   ELSE sent)
                          @@ "severity_label" :> JStr(L_uncertain)
                          @@ "severity_score" :> JInt(FallbackScore)
                          @@ "raw_llm_output" :> JStr(raw))

====
